---- MODULE Spec2Model ----
(***************************************************************************)
(* Grid search engine of src/Snake.py (SearchBasedPlayer): the four        *)
(* strategies bfs, dfs, dijkstra and astar over states keyed by            *)
(* (position, direction), run from a snapshot of the snake, the food and   *)
(* the obstacles.  One action per iteration of a strategy's while loop.    *)
(***************************************************************************)
EXTENDS Integers, Sequences, FiniteSets, TLC

VARIABLES
    GRID_WIDTH,         \* module constant GRID_WIDTH: columns of the board
    GRID_HEIGHT,        \* module constant GRID_HEIGHT: rows of the board
    snake_positions,    \* Snake.positions: list of cells, head first
    snake_direction,    \* Snake.direction
    snake_length,       \* Snake.length
    food_position,      \* Food.position
    obstacle_positions, \* {ob.position : ob in SnakeGame.obstacles}
    ALGORITHM_TYPE,     \* SearchBasedPlayer.ALGORITHM_TYPE
    visited,            \* Player.visited: set of cells
    chosen_path,        \* Player.chosen_path: list of directions
    obstacles,          \* SearchBasedPlayer.obstacles: the player's cache of hazard cells
    pc,                 \* position inside search_path
    nodes,              \* every State object put on a frontier; a parent is an index, 0 is None
    states,             \* the frontier `states`: deque (bfs/dfs) or binary heap (dijkstra/astar) of node indices
    history,            \* `history`: set of dedup keys <<position, direction>>
    cost_so_far,        \* `cost_so_far`: dict from dedup key to best known cost
    final_state,        \* `final_state`: node index, 0 is None
    snake_hasReset,     \* Snake.hasReset
    searches,           \* calls of search_path made in the current tick of SnakeGame.run
    consumed,           \* directions popped from chosen_path in the current tick
    rect_x,             \* Racket.rect.x of src/Pong.py
    self_history        \* SearchBasedPlayer.history, the attribute search_path assigns: <<>> while
                        \* the player has no such attribute, <<value>> once it has

vars == <<GRID_WIDTH, GRID_HEIGHT, snake_positions, snake_direction, snake_length, food_position,
          obstacle_positions, ALGORITHM_TYPE, visited, chosen_path, obstacles,
          pc, nodes, states, history, cost_so_far, final_state,
          snake_hasReset, searches, consumed, rect_x, self_history>>

\* what lies outside one call of search_path: the game loop's bookkeeping and
\* the racket of the other game
beyond == <<snake_hasReset, searches, consumed, rect_x>>

world == <<GRID_WIDTH, GRID_HEIGHT, snake_positions, snake_direction, snake_length, food_position,
           obstacle_positions, ALGORITHM_TYPE>>

----------------------------------------------------------------------------
(* Bounds of the model.  GRID_WIDTH and GRID_HEIGHT are 20 in the source;  *)
(* the model explores every snapshot of a Board x Board board, and two     *)
(* fixed scenarios on a 5 x 5 board.                                       *)

Board == 3
MaxLen == 3
MaxBody == 3
RingBody == 4
MaxObstacles == 2

----------------------------------------------------------------------------
(* Direction and Position *)

Directions == <<"UP", "DOWN", "LEFT", "RIGHT">>

DirSet == {Directions[i] : i \in 1..Len(Directions)}

value(d) ==
    CASE d = "UP" -> <<0, -1>>
      [] d = "DOWN" -> <<0, 1>>
      [] d = "LEFT" -> <<-1, 0>>
      [] d = "RIGHT" -> <<1, 0>>

Direction(v) == CHOOSE d \in DirSet : value(d) = v

reverse(d) == Direction(<<value(d)[1] * (-1), value(d)[2] * (-1)>>)

\* Position.check_bounds: TRUE when the cell lies OUTSIDE the board
check_bounds(p, width, height) ==
    (p[1] >= width) \/ (p[1] < 0) \/ (p[2] >= height) \/ (p[2] < 0)

Cells == (0..(GRID_WIDTH - 1)) \X (0..(GRID_HEIGHT - 1))

Step(p, d) == <<p[1] + value(d)[1], p[2] + value(d)[2]>>

Abs(n) == IF n < 0 THEN -n ELSE n

Manhattan(a, b) == Abs(a[1] - b[1]) + Abs(a[2] - b[2])

PENALTY == GRID_WIDTH * GRID_HEIGHT + GRID_WIDTH + GRID_HEIGHT

Algorithms == {"bfs", "dfs", "dijkstra", "astar"}

----------------------------------------------------------------------------
(* SearchBasedPlayer.State *)

State(position, direction, priority, cost, parent, length) ==
    [position |-> position, direction |-> direction, priority |-> priority,
     cost |-> cost, parent |-> parent, length |-> length]

\* __eq__ / __hash__: the dedup key
Key(s) == <<s.position, s.direction>>

\* mutation of Lt: the comparison turned around
Lt_flipped(ns, a, b) == ns[a].priority > ns[b].priority

\* __lt__ on two frontier entries (node indices) of arena ns
Lt(ns, a, b) == ns[a].priority < ns[b].priority

\* the State yielded by expandState for one direction: cost 0, priority 0, length 1
expandState(ns, cur, d) ==
    State(Step(ns[cur].position, d), d, 0, 0, cur, 1)

\* mutation of isValid: the anti-reversal test left out
isValid_reversing(ns, s, body) ==
    IF s.length <= 0 THEN FALSE
    ELSE IF check_bounds(s.position, GRID_WIDTH, GRID_HEIGHT) THEN FALSE
    ELSE IF s.position \in body THEN FALSE
    ELSE TRUE

\* mutation of isValid: the budget test left out
isValid_nobudget(ns, s, body) ==
    IF check_bounds(s.position, GRID_WIDTH, GRID_HEIGHT) THEN FALSE
    ELSE IF s.position \in body THEN FALSE
    ELSE IF s.parent # 0 /\ ns[s.parent].length > 1
            /\ reverse(s.direction) = ns[s.parent].direction THEN FALSE
    ELSE TRUE


\* State.isValid, body being the set every State of one search shares
isValid(ns, s, body) ==
    IF s.length <= 0 THEN FALSE
    ELSE IF check_bounds(s.position, GRID_WIDTH, GRID_HEIGHT) THEN FALSE
    ELSE IF s.position \in body THEN FALSE
    ELSE IF s.parent # 0 /\ ns[s.parent].length > 1
            /\ reverse(s.direction) = ns[s.parent].direction THEN FALSE
    ELSE TRUE

----------------------------------------------------------------------------
(* heapq on a list of node indices; positions are 0-based as in heapq *)

At(h, pos) == h[pos + 1]

Put(h, pos, x) == [h EXCEPT ![pos + 1] = x]

RECURSIVE siftdown(_, _, _, _, _)
siftdown(ns, h, startpos, pos, newitem) ==
    IF pos > startpos
    THEN LET parentpos == (pos - 1) \div 2
             parent == At(h, parentpos)
         IN IF Lt(ns, newitem, parent)
            THEN siftdown(ns, Put(h, pos, parent), startpos, parentpos, newitem)
            ELSE Put(h, pos, newitem)
    ELSE Put(h, pos, newitem)

heappush(ns, h, item) ==
    LET h1 == Append(h, item)
    IN siftdown(ns, h1, 0, Len(h1) - 1, item)

RECURSIVE siftup_loop(_, _, _)
\* the while loop of heapq._siftup: returns <<heap, pos>> with the hole bubbled to a leaf
siftup_loop(ns, h, pos) ==
    LET endpos == Len(h)
        childpos == 2 * pos + 1
    IN IF childpos < endpos
       THEN LET rightpos == childpos + 1
                c == IF rightpos < endpos /\ ~Lt(ns, At(h, childpos), At(h, rightpos))
                     THEN rightpos ELSE childpos
            IN siftup_loop(ns, Put(h, pos, At(h, c)), c)
       ELSE <<h, pos>>

siftup(ns, h, pos) ==
    LET newitem == At(h, pos)
        r == siftup_loop(ns, h, pos)
    IN siftdown(ns, r[1], pos, r[2], newitem)

\* heappop: <<popped item, heap after>>
heappop(ns, h) ==
    LET lastelt == h[Len(h)]
        rest == SubSeq(h, 1, Len(h) - 1)
    IN IF Len(rest) > 0
       THEN <<rest[1], siftup(ns, Put(rest, 0, lastelt), 0)>>
       ELSE <<lastelt, rest>>

----------------------------------------------------------------------------
(* The snapshot search_path reads *)

Range(seq) == {seq[i] : i \in 1..Len(seq)}

\* Snake.get_head_position
get_head_position == snake_positions[1]

\* a search that is not told where the snake lies
current_body_unseen == {}

\* current_body = set(snake.positions); every State shares this one set
current_body == Range(snake_positions)

\* target_state = State(position=food.position, direction=Direction.UP)
target_state == State(food_position, "UP", 0, 0, 0, 1)

\* start_state = State(position=head, direction=snake.direction, body=current_body, length=snake.length)
start_state == State(get_head_position, snake_direction, 0, 0, 0, snake_length)

EmptyDict == [k \in {} |-> 0]

\* the local state of one strategy call, as a record
Loop ==
    [pc |-> pc, nodes |-> nodes, states |-> states, history |-> history,
     cost_so_far |-> cost_so_far, visited |-> visited,
     final_state |-> final_state]

Assign(L) ==
    /\ pc' = L.pc
    /\ nodes' = L.nodes
    /\ states' = L.states
    /\ history' = L.history
    /\ cost_so_far' = L.cost_so_far
    /\ visited' = L.visited
    /\ final_state' = L.final_state

----------------------------------------------------------------------------
(* blind_search (bfs, dfs) *)

\* lines 396-397: states = deque([start_state]); history = {start_state}
blind_init(vis) ==
    [pc |-> "search", nodes |-> <<start_state>>, states |-> <<1>>,
     history |-> {Key(start_state)}, cost_so_far |-> EmptyDict, visited |-> vis,
     final_state |-> 0]

\* mutation of blind_pop: always the right end, whatever dfs says
blind_pop_lifo(st, dfs) == <<st[Len(st)], SubSeq(st, 1, Len(st) - 1)>>

\* mutation of blind_pop: the state is read and left on the frontier
blind_pop_peek(st, dfs) ==
    IF dfs THEN <<st[Len(st)], st>> ELSE <<Head(st), st>>

\* states.pop() if dfs else states.popleft(): <<popped, rest>>
blind_pop(st, dfs) ==
    IF dfs THEN <<st[Len(st)], SubSeq(st, 1, Len(st) - 1)>>
    ELSE <<Head(st), Tail(st)>>

\* mutation of blind_candidate: the test against history left out
blind_candidate_unseen(L, cur, d) ==
    LET c0 == expandState(L.nodes, cur, d)
        hit == c0.position \in obstacles
        c == [c0 EXCEPT !.length = L.nodes[cur].length - (IF hit THEN 1 ELSE 0)]
    IN IF hit THEN L
       ELSE IF ~isValid(L.nodes, c, current_body) THEN L
       ELSE [L EXCEPT !.history = @ \cup {Key(c)},
                      !.nodes = Append(@, c),
                      !.states = Append(@, Len(L.nodes) + 1)]

\* the body of the for loop (lines 414-427) for one candidate
blind_candidate(L, cur, d) ==
    LET c0 == expandState(L.nodes, cur, d)
        hit == c0.position \in obstacles
        c == [c0 EXCEPT !.length = L.nodes[cur].length - (IF hit THEN 1 ELSE 0)]
    IN IF hit THEN L
       ELSE IF ~isValid(L.nodes, c, current_body) THEN L
       ELSE IF Key(c) \in L.history THEN L
       ELSE [L EXCEPT !.history = @ \cup {Key(c)},
                      !.nodes = Append(@, c),
                      !.states = Append(@, Len(L.nodes) + 1)]

\* for candidateState in currentState.expandState(): in enumeration order; each
\* candidate sees the loop state the one before it left
blind_expand(L, cur) ==
    CHOOSE r \in
        {blind_candidate(L3, cur, Directions[4]) : L3 \in
            {blind_candidate(L2, cur, Directions[3]) : L2 \in
                {blind_candidate(L1, cur, Directions[2]) : L1 \in
                    {blind_candidate(L0, cur, Directions[1]) : L0 \in {L}}}}} : TRUE

\* one iteration of `while states:` (lines 403-427), or the return of line 428
blind_iter(L, dfs) ==
    IF L.states = <<>>
    THEN [L EXCEPT !.pc = "returned", !.final_state = 0]
    ELSE CHOOSE r \in
           {LET cur == p[1]
                L1 == [L EXCEPT !.states = p[2],
                                !.visited = @ \cup {L.nodes[cur].position}]
            IN IF L.nodes[cur].position = target_state.position
               THEN [L1 EXCEPT !.pc = "returned", !.final_state = cur]
               ELSE blind_expand(L1, cur) : p \in {blind_pop(L.states, dfs)}} : TRUE

----------------------------------------------------------------------------
(* astar (and dijkstra = astar with use_heuristic = False) *)

\* lines 440-445
astar_init(vis) ==
    [pc |-> "search", nodes |-> <<start_state>>,
     states |-> heappush(<<start_state>>, <<>>, 1),
     history |-> {}, cost_so_far |-> (Key(start_state) :> 0), visited |-> vis,
     final_state |-> 0]

\* currentState.cost > cost_so_far.get(currentState, float('inf'))
stale(L, cur) ==
    LET k == Key(L.nodes[cur])
    IN k \in DOMAIN L.cost_so_far /\ L.nodes[cur].cost > L.cost_so_far[k]

\* mutation of improves: every arrival counts as an improvement
improves_always(csf, k, new_cost) == TRUE

\* new_cost < cost_so_far.get(candidateState, float('inf'))
improves(csf, k, new_cost) ==
    IF k \in DOMAIN csf THEN new_cost < csf[k] ELSE TRUE

\* mutation of step_cost: a hazard cell costs as little as any other
step_cost_unit(position) == 1

step_cost(position) ==
    IF position \in obstacles
    THEN PENALTY
    ELSE 1

\* mutation of h_cost: the distance squared, which overestimates
h_cost_inflated(position, use_heuristic) ==
    IF use_heuristic
    THEN (Abs(target_state.position[1] - position[1])
          + Abs(target_state.position[2] - position[2]))
         * (Abs(target_state.position[1] - position[1])
            + Abs(target_state.position[2] - position[2]))
    ELSE 0

h_cost(position, use_heuristic) ==
    IF use_heuristic
    THEN Abs(target_state.position[1] - position[1])
         + Abs(target_state.position[2] - position[2])
    ELSE 0

\* mutation of astar_candidate: the candidate takes its parent's length as it
\* is, hazard or not
astar_candidate_keeps_budget(L, cur, d, use_heuristic) ==
    LET c0 == expandState(L.nodes, cur, d)
        c == [c0 EXCEPT !.length = L.nodes[cur].length]
    IN IF isValid(L.nodes, c, current_body) /\ Key(c) \notin L.history
       THEN LET new_cost == L.nodes[cur].cost + step_cost(c.position)
            IN IF improves(L.cost_so_far, Key(c), new_cost)
               THEN LET pushed == [c EXCEPT !.cost = new_cost,
                                            !.priority = new_cost + h_cost(c.position, use_heuristic)]
                        ns == Append(L.nodes, pushed)
                    IN [L EXCEPT !.cost_so_far = (Key(c) :> new_cost) @@ @,
                                 !.nodes = ns,
                                 !.states = heappush(ns, @, Len(ns))]
               ELSE L
       ELSE L

\* the body of the for loop (lines 464-482) for one candidate
astar_candidate(L, cur, d, use_heuristic) ==
    LET c0 == expandState(L.nodes, cur, d)
        c == [c0 EXCEPT !.length = L.nodes[cur].length
                                   - (IF c0.position \in obstacles THEN 1 ELSE 0)]
    IN IF isValid(L.nodes, c, current_body) /\ Key(c) \notin L.history
       THEN LET new_cost == L.nodes[cur].cost + step_cost(c.position)
            IN IF improves(L.cost_so_far, Key(c), new_cost)
               THEN LET pushed == [c EXCEPT !.cost = new_cost,
                                            !.priority = new_cost + h_cost(c.position, use_heuristic)]
                        ns == Append(L.nodes, pushed)
                    IN [L EXCEPT !.cost_so_far = (Key(c) :> new_cost) @@ @,
                                 !.nodes = ns,
                                 !.states = heappush(ns, @, Len(ns))]
               ELSE L
       ELSE L

astar_expand(L, cur, uh) ==
    CHOOSE r \in
        {astar_candidate(L3, cur, Directions[4], uh) : L3 \in
            {astar_candidate(L2, cur, Directions[3], uh) : L2 \in
                {astar_candidate(L1, cur, Directions[2], uh) : L1 \in
                    {astar_candidate(L0, cur, Directions[1], uh) : L0 \in {L}}}}} : TRUE

\* one iteration of `while states:` (lines 450-482), or the return of line 483
astar_iter(L, use_heuristic) ==
    IF L.states = <<>>
    THEN [L EXCEPT !.pc = "returned", !.final_state = 0]
    ELSE CHOOSE r \in
           {LET cur == p[1]
                L0 == [L EXCEPT !.states = p[2]]
            IN IF stale(L, cur) THEN L0
               ELSE LET L1 == [L0 EXCEPT !.history = @ \cup {Key(L.nodes[cur])},
                                         !.visited = @ \cup {L.nodes[cur].position}]
                    IN IF L.nodes[cur].position = target_state.position
                       THEN [L1 EXCEPT !.pc = "returned", !.final_state = cur]
                       ELSE astar_expand(L1, cur, use_heuristic)
            : p \in {heappop(L.nodes, L.states)}} : TRUE

----------------------------------------------------------------------------
(* reconstruct_path *)

RECURSIVE collect(_, _)
\* the while loop: directions from end_node back to the start
collect(ns, current) ==
    IF ns[current].parent # 0
    THEN <<ns[current].direction>> \o collect(ns, ns[current].parent)
    ELSE <<>>

Reversed(seq) == [i \in 1..Len(seq) |-> seq[Len(seq) + 1 - i]]

\* mutation of reconstruct_path: the collected list returned as it is
reconstruct_path_unreversed(ns, end_node) == collect(ns, end_node)

reconstruct_path(ns, end_node) == Reversed(collect(ns, end_node))

----------------------------------------------------------------------------
(* Snapshots the game can hand to search_path *)

Adjacent(a, b) == Manhattan(a, b) = 1

RECURSIVE SnakeShapes(_)
\* lists of n distinct cells, each next to the one before it: what Snake.move builds
SnakeShapes(n) ==
    IF n = 1 THEN {<<c>> : c \in Cells}
    ELSE UNION {{Append(s, c) : c \in {c2 \in Cells : Adjacent(s[Len(s)], c2)
                                                     /\ c2 \notin Range(s)}}
                : s \in SnakeShapes(n - 1)}

\* Snake.move puts the new head one step along the direction, so a snake of two
\* or more cells faces away from its second cell; a one-cell snake faces anywhere.
\* After hit_obstacle the list is one longer than the length until the next move.
\* Snake.eat keeps the food off the snake, but Snake.reset does not look at the
\* food: it can drop the one-cell snake on it.  The search then returns the
\* empty plan, Snake.move takes the snake one step on, and the next tick hands
\* over a two-cell snake with the food under its second cell.
SnapshotOK ==
    /\ Len(snake_positions) >= 2 =>
           Step(snake_positions[2], snake_direction) = snake_positions[1]
    /\ Len(snake_positions) <=
           snake_length + (IF snake_positions[1] \in obstacle_positions THEN 1 ELSE 0)
    /\ food_position \in Range(Tail(snake_positions)) => Len(snake_positions) = 2

\* no game loop is running and the racket is at rest
InitBeyond ==
    /\ snake_hasReset = FALSE
    /\ searches = 0
    /\ consumed = 0
    /\ rect_x = 0

\* SnakeGame.run calls search_path in its first tick, before the snake has
\* moved: a snake of two or more cells belongs to a player that has searched
InitPlayer ==
    /\ self_history \in (IF Len(snake_positions) = 1 THEN {<<>>, << {} >>} ELSE {<< {} >>})
    /\ visited = {}
    /\ chosen_path = <<>>
    /\ obstacles = {}
    /\ pc = "idle"
    /\ nodes = <<>>
    /\ states = <<>>
    /\ history = {}
    /\ cost_so_far = EmptyDict
    /\ final_state = 0

\* the snapshots on a Board x Board board with a strategy of algs, a snake of
\* at most maxBody cells, a budget of at most maxLen and at most maxObst obstacles
Snapshot(algs, maxBody, maxLen, maxObst) ==
    /\ GRID_WIDTH = Board
    /\ GRID_HEIGHT = Board
    /\ ALGORITHM_TYPE \in algs
    /\ snake_positions \in UNION {SnakeShapes(n) : n \in 1..maxBody}
    /\ snake_direction \in DirSet
    /\ snake_length \in 1..maxLen
    /\ food_position \in Cells
    /\ obstacle_positions \in {o \in SUBSET Cells : Cardinality(o) <= maxObst}
    /\ SnapshotOK

\* the two scenarios of the design's section 8: a 5 x 5 board, the head at (0,0)
\* facing right with budget 10, a body cell at (2,2), the food at (4,0)
Scenario(algs, hazards) ==
    /\ GRID_WIDTH = 5
    /\ GRID_HEIGHT = 5
    /\ ALGORITHM_TYPE \in algs
    /\ snake_positions = << <<0, 0>>, <<2, 2>> >>
    /\ snake_direction = "RIGHT"
    /\ snake_length = 10
    /\ food_position = <<4, 0>>
    /\ obstacle_positions = hazards

HazardRow == {<<1, 0>>, <<2, 0>>, <<3, 0>>}

InScenario == GRID_WIDTH = 5 /\ snake_length = 10

Init == Snapshot(Algorithms, MaxBody, MaxLen, MaxObstacles) /\ InitPlayer /\ InitBeyond

----------------------------------------------------------------------------
(* search_path and the strategy loops, one action per step *)

IsBlind == ALGORITHM_TYPE \in {"bfs", "dfs"}

IsAstar == ALGORITHM_TYPE \in {"dijkstra", "astar"}

use_heuristic == ALGORITHM_TYPE = "astar"

\* lines 355-376: reset the player's fields, build the start state, enter the strategy
strategy_init(vis) ==
    IF ALGORITHM_TYPE \in {"bfs", "dfs"} THEN blind_init(vis) ELSE astar_init(vis)

\* mutation of SearchPath: a snapshot whose food lies under the body is turned
\* away before any strategy starts
SearchPath_rejecting ==
    /\ pc = "idle"
    /\ obstacles' = obstacle_positions
    /\ chosen_path' = <<>>
    /\ IF food_position \in Range(snake_positions)
       THEN /\ pc' = "rejected"
            /\ UNCHANGED <<visited, nodes, states, history, cost_so_far, final_state>>
       ELSE \E L \in {strategy_init({})} : Assign(L)
    /\ self_history' = << {} >>
    /\ UNCHANGED <<world, beyond>>

SearchPath ==
    /\ pc = "idle"
    /\ obstacles' = obstacle_positions
    /\ self_history' = << {} >>
    /\ chosen_path' = <<>>
    /\ \E L \in {strategy_init({})} : Assign(L)
    /\ UNCHANGED <<world, beyond>>

BlindExhausted ==
    /\ pc = "search" /\ IsBlind
    /\ states = <<>>
    /\ \E L \in {blind_iter(Loop, ALGORITHM_TYPE = "dfs")} : Assign(L)
    /\ UNCHANGED <<world, beyond, self_history, chosen_path, obstacles>>

BlindGoal ==
    /\ pc = "search" /\ IsBlind
    /\ states # <<>>
    /\ nodes[blind_pop(states, ALGORITHM_TYPE = "dfs")[1]].position = target_state.position
    /\ \E L \in {blind_iter(Loop, ALGORITHM_TYPE = "dfs")} : Assign(L)
    /\ UNCHANGED <<world, beyond, self_history, chosen_path, obstacles>>

BlindExpand ==
    /\ pc = "search" /\ IsBlind
    /\ states # <<>>
    /\ nodes[blind_pop(states, ALGORITHM_TYPE = "dfs")[1]].position # target_state.position
    /\ \E L \in {blind_iter(Loop, ALGORITHM_TYPE = "dfs")} : Assign(L)
    /\ UNCHANGED <<world, beyond, self_history, chosen_path, obstacles>>

AstarExhausted ==
    /\ pc = "search" /\ IsAstar
    /\ states = <<>>
    /\ \E L \in {astar_iter(Loop, use_heuristic)} : Assign(L)
    /\ UNCHANGED <<world, beyond, self_history, chosen_path, obstacles>>

AstarGoal ==
    /\ pc = "search" /\ IsAstar
    /\ states # <<>>
    /\ ~stale(Loop, heappop(nodes, states)[1])
    /\ nodes[heappop(nodes, states)[1]].position = target_state.position
    /\ \E L \in {astar_iter(Loop, use_heuristic)} : Assign(L)
    /\ UNCHANGED <<world, beyond, self_history, chosen_path, obstacles>>

\* a popped state that is not the goal: discarded when stale (line 454), expanded otherwise
AstarExpand ==
    /\ pc = "search" /\ IsAstar
    /\ states # <<>>
    /\ \/ stale(Loop, heappop(nodes, states)[1])
       \/ nodes[heappop(nodes, states)[1]].position # target_state.position
    /\ \E L \in {astar_iter(Loop, use_heuristic)} : Assign(L)
    /\ UNCHANGED <<world, beyond, self_history, chosen_path, obstacles>>

\* mutation of SearchPathReturn: the plan's first direction is written into
\* the snake as well
SearchPathReturn_turning ==
    /\ pc = "returned"
    /\ final_state # 0
    /\ chosen_path' = reconstruct_path(nodes, final_state)
    /\ snake_direction' = IF chosen_path' = <<>> THEN snake_direction ELSE chosen_path'[1]
    /\ pc' = "done"
    /\ UNCHANGED <<beyond, self_history, GRID_WIDTH, GRID_HEIGHT, snake_positions, snake_length, food_position,
                   obstacle_positions, ALGORITHM_TYPE, visited, obstacles, nodes, states,
                   history, cost_so_far, final_state>>

\* lines 378-379: if final_state: self.chosen_path = self.reconstruct_path(final_state)
SearchPathReturn ==
    /\ pc = "returned"
    /\ final_state # 0
    /\ chosen_path' = reconstruct_path(nodes, final_state)
    /\ pc' = "done"
    /\ UNCHANGED <<world, beyond, self_history, visited, obstacles, nodes, states, history, cost_so_far,
                   final_state>>

\* lines 380-384: print(...); pygame.quit(); sys.exit()
SearchPathExit ==
    /\ pc = "returned"
    /\ final_state = 0
    /\ pc' = "exited"
    /\ UNCHANGED <<world, beyond, self_history, visited, chosen_path, obstacles, nodes, states, history,
                   cost_so_far, final_state>>

Next ==
    \/ SearchPath
    \/ BlindExhausted
    \/ BlindGoal
    \/ BlindExpand
    \/ AstarExhausted
    \/ AstarGoal
    \/ AstarExpand
    \/ SearchPathReturn
    \/ SearchPathExit

Spec == Init /\ [][Next]_vars

\* the cost-aware strategies alone, and the hazard scenario
InitCost ==
    /\ \/ Snapshot({"dijkstra", "astar"}, MaxBody, MaxLen, MaxObstacles)
       \/ Scenario({"dijkstra", "astar"}, HazardRow)
    /\ InitPlayer
    /\ InitBeyond

NextCost ==
    \/ SearchPath
    \/ AstarExhausted
    \/ AstarGoal
    \/ AstarExpand
    \/ SearchPathReturn
    \/ SearchPathExit

SpecCost == InitCost /\ [][NextCost]_vars

\* boards without obstacles, and the scenario without hazards
InitFree ==
    /\ \/ Snapshot({"bfs", "dijkstra", "astar"}, RingBody, RingBody, 0)
       \/ Scenario({"bfs", "dijkstra", "astar"}, {})
    /\ InitPlayer
    /\ InitBeyond

SpecFree == InitFree /\ [][Next]_vars

\* snakes long enough to wall the food into the corner (0,0), with or without a
\* hazard in the middle of the board.  search_path runs on one thread and
\* nothing preempts it: every step that can be taken is taken.
InitFair ==
    /\ Snapshot(Algorithms, RingBody, RingBody, 1)
    /\ food_position = <<0, 0>>
    /\ obstacle_positions \subseteq {<<1, 1>>}
    /\ InitPlayer
    /\ InitBeyond

SpecFair == InitFair /\ [][Next]_vars /\ WF_vars(Next)

----------------------------------------------------------------------------
(* Valid paths of a snapshot, stated without the search: the reference the   *)
(* claims compare the strategies against.  A path state is <<cell,           *)
(* direction, budget>>; the number of hazard cells entered so far is the     *)
(* start budget minus the budget.                                            *)

PathStart == <<snake_positions[1], snake_direction, snake_length>>

\* the path states one valid step away from e: in bounds, not in the body, no
\* reversal while the budget is above 1, budget above 0 afterwards; hazards
\* are closed when block
PathSucc(e, block) ==
    {<<Step(e[1], d), d,
       e[3] - (IF Step(e[1], d) \in obstacle_positions THEN 1 ELSE 0)>> :
        d \in {dd \in DirSet :
                 /\ Step(e[1], dd) \in Cells
                 /\ Step(e[1], dd) \notin Range(snake_positions)
                 /\ ~(e[3] > 1 /\ dd = reverse(e[2]))
                 /\ e[3] - (IF Step(e[1], dd) \in obstacle_positions THEN 1 ELSE 0) > 0
                 /\ ~(block /\ Step(e[1], dd) \in obstacle_positions)}}

NoPath == 0 - 1

MinOf(S) == CHOOSE m \in S : \A n \in S : m <= n

\* the summed step costs of a path of k steps ending in path state e, a hazard
\* cell costing hazardCost and any other cell 1
PathCost(e, k, hazardCost) == k + (hazardCost - 1) * (snake_length - e[3])

RECURSIVE PathSearch(_, _, _, _, _, _)
\* breadth-first over path states: frontier holds those first reached in k steps
PathSearch(frontier, seen, k, best, block, hazardCost) ==
    IF frontier = {} THEN best
    ELSE LET atTarget == {e \in frontier : e[1] = food_position}
             costs == {PathCost(e, k, hazardCost) : e \in atTarget}
                      \cup (IF best = NoPath THEN {} ELSE {best})
             best1 == IF costs = {} THEN NoPath ELSE MinOf(costs)
             next == (UNION {PathSucc(e, block) : e \in frontier}) \ seen
         IN PathSearch(next, seen \cup next, k + 1, best1, block, hazardCost)

\* the least summed step cost of any valid path from the head to the food, or NoPath
MinPathCost == PathSearch({PathStart}, {PathStart}, 0, NoPath, FALSE, PENALTY)

\* the least number of steps of any valid path from the head to the food, or NoPath
MinPathSteps == PathSearch({PathStart}, {PathStart}, 0, NoPath, FALSE, 1)

\* TRUE when some valid path enters no hazard cell
HazardFreePathExists == PathSearch({PathStart}, {PathStart}, 0, NoPath, TRUE, 1) # NoPath

\* the cells a plan enters, in order, from cell p
RECURSIVE Walk(_, _)
Walk(p, plan) ==
    IF plan = <<>> THEN <<>>
    ELSE <<Step(p, Head(plan))>> \o Walk(Step(p, Head(plan)), Tail(plan))

\* the budget left before move i of a plan: one unit gone per hazard cell entered
BudgetBefore(plan, i) ==
    snake_length - Cardinality({j \in 1..(i - 1) :
                                  Walk(snake_positions[1], plan)[j] \in obstacle_positions})

\* the node indices from the start state to node n along the parent links
RECURSIVE Chain(_, _)
Chain(ns, n) ==
    IF ns[n].parent = 0 THEN <<n>> ELSE Append(Chain(ns, ns[n].parent), n)

\* the cells joined to the food through cells that are not body cells
RECURSIVE Region(_)
Region(R) ==
    LET more == {c \in Cells \ (R \cup Range(snake_positions)) :
                    \E r \in R : Adjacent(c, r)}
    IN IF more = {} THEN R ELSE Region(R \cup more)

\* the food is walled in by body cells and the board's edge, the head outside
Enclosed ==
    /\ food_position \notin Range(snake_positions)
    /\ \A r \in Region({food_position}) : ~Adjacent(snake_positions[1], r)

\* dijkstra run to its return from the start of the snapshot, as a function
RECURSIVE run_astar(_, _)
run_astar(L, uh) ==
    IF L.pc # "search" THEN L
    ELSE CHOOSE r \in {run_astar(L1, uh) : L1 \in {astar_iter(L, uh)}} : TRUE

----------------------------------------------------------------------------
(* Claims *)

PlanCells == Walk(snake_positions[1], chosen_path)

\* C1: whenever a valid path to the target exists, dijkstra returns a final
\* state whose cost is the least summed step cost of any valid path (1 per
\* ordinary cell, PENALTY per hazard cell).
C1_DijkstraOptimal ==
    (pc = "returned" /\ ALGORITHM_TYPE = "dijkstra" /\ MinPathCost # NoPath) =>
        (final_state # 0 /\ nodes[final_state].cost = MinPathCost)

\* dijkstra has returned a path through a hazard cell, the cheapest there is
C1_Witness ==
    /\ pc = "returned" /\ ALGORITHM_TYPE = "dijkstra"
    /\ final_state # 0
    /\ nodes[final_state].cost > PENALTY
    /\ nodes[final_state].cost = MinPathCost

\* C2: on one snapshot astar and dijkstra both fail or both return a final
\* state, and then the two final states cost the same.
C2_HeuristicEquivalence ==
    (pc = "returned" /\ ALGORITHM_TYPE = "astar") =>
        LET D == run_astar(astar_init({}), FALSE)
        IN /\ (final_state = 0) <=> (D.final_state = 0)
           /\ final_state # 0 => nodes[final_state].cost = D.nodes[D.final_state].cost

\* astar has returned a final state after fewer pops than dijkstra needs
C2_Witness ==
    /\ pc = "returned" /\ ALGORITHM_TYPE = "astar"
    /\ final_state # 0
    /\ nodes[final_state].cost > 2
    /\ Cardinality(history) < Cardinality(run_astar(astar_init({}), FALSE).history)

\* C3: without hazards, whenever a valid path exists, bfs, dijkstra and astar
\* each return a plan of the least number of steps of any valid path, and the
\* cost dijkstra and astar return is that number; in the 5 x 5 scenario the
\* plan has 4 moves.
C3_MinimalWithoutHazards ==
    (pc \in {"done", "exited"} /\ obstacle_positions = {}
     /\ ALGORITHM_TYPE \in {"bfs", "dijkstra", "astar"} /\ MinPathSteps # NoPath) =>
        /\ pc = "done"
        /\ Len(chosen_path) = MinPathSteps
        /\ IsAstar => nodes[final_state].cost = MinPathSteps
        /\ InScenario => Len(chosen_path) = 4

\* the scenario has been planned by bfs
C3_Witness ==
    /\ pc = "done" /\ InScenario /\ ALGORITHM_TYPE = "bfs"
    /\ obstacle_positions = {}
    /\ chosen_path = <<"RIGHT", "RIGHT", "RIGHT", "RIGHT">>

\* C4: a returned plan, walked from the start cell, ends on the target cell,
\* enters only cells of the board that are not body cells, and is the list of
\* directions of the non-start states of the final state's parent chain, from
\* the start to the target.
C4_PlanLeadsToTarget ==
    pc = "done" =>
        /\ \A i \in 1..Len(PlanCells) :
              /\ ~check_bounds(PlanCells[i], GRID_WIDTH, GRID_HEIGHT)
              /\ PlanCells[i] \notin Range(snake_positions)
        /\ IF chosen_path = <<>> THEN snake_positions[1] = food_position
           ELSE PlanCells[Len(PlanCells)] = food_position
        /\ LET chain == Chain(nodes, final_state)
           IN /\ chain[1] = 1
              /\ chosen_path = [i \in 1..(Len(chain) - 1) |-> nodes[chain[i + 1]].direction]

\* a plan of three moves or more with a turn in it has been returned
C4_Witness ==
    /\ pc = "done"
    /\ Len(chosen_path) >= 3
    /\ chosen_path[1] # chosen_path[Len(chosen_path)]

\* C5: in a returned plan no direction is the reverse of the one before it (the
\* snake's direction before the first), unless the budget before that move is 1.
C5_AntiReversal ==
    pc = "done" =>
        \A i \in 1..Len(chosen_path) :
            LET before == IF i = 1 THEN snake_direction ELSE chosen_path[i - 1]
            IN chosen_path[i] = reverse(before) => BudgetBefore(chosen_path, i) = 1

\* the plan makes its way round to the cell behind a one-cell snake whose
\* budget is above 1
C5_Witness ==
    /\ pc = "done"
    /\ snake_length > 1
    /\ food_position = Step(snake_positions[1], reverse(snake_direction))
    /\ Len(chosen_path) = 3

\* C6: when the frontier runs out, search_path comes back to its caller with a
\* no-plan result and the process goes on: a call never ends anywhere but at
\* its return.
C6_ReturnsNoPlan ==
    pc \notin {"idle", "search", "returned"} => pc = "done"

\* C7: every run of a strategy's loop stops, and with the food walled in by
\* body cells, the head outside, it stops with no final state.
C7_Terminates ==
    <>(/\ pc \in {"done", "exited"}
       /\ Enclosed => (pc = "exited" /\ final_state = 0))

\* a strategy has stopped without a final state on a walled-in food
C7_Witness ==
    /\ Enclosed
    /\ pc = "returned"
    /\ final_state = 0
    /\ Cardinality(visited) >= 2

\* C8 as stated: with the food under a body cell the snapshot is turned away
\* before the search: nothing is popped, and the outcome is neither a plan nor
\* the no-path outcome.
C8_RejectedBeforeSearch ==
    food_position \in Range(snake_positions) =>
        (visited = {} /\ final_state = 0 /\ pc \notin {"done", "exited"})

\* C8, amended: search_path turns no snapshot away.  With the food under the
\* head (Snake.reset can drop the snake on it) the strategy pops the start
\* state, finds it on the food and returns it; the outcome is a plan, the empty
\* one.  With the food under a body cell behind the head (the snake has just
\* moved off the cell it was reset on) the strategy runs as well, every state on
\* the food is dropped as a collision with the body, and the outcome is the
\* no-path outcome.
C8_SearchRunsOnBodyTarget ==
    /\ (food_position = snake_positions[1] /\ pc \notin {"idle", "search"}) =>
           /\ pc \in {"returned", "done"}
           /\ final_state = 1
           /\ nodes[1].parent = 0
           /\ visited = {snake_positions[1]}
           /\ chosen_path = <<>>
    /\ (food_position \in Range(Tail(snake_positions))
           /\ pc \in {"returned", "done", "exited"}) =>
           /\ pc \in {"returned", "exited"}
           /\ final_state = 0
           /\ snake_positions[1] \in visited

\* the empty plan has been returned for a food under the head of a longer snake
C8_Witness ==
    /\ pc = "done"
    /\ food_position = snake_positions[1]
    /\ Len(snake_positions) >= 2
    /\ chosen_path = <<>>

\* C9: a plan of dijkstra or astar enters a hazard cell only when no valid path
\* keeps off the hazards; in the 5 x 5 scenario with the hazards (1,0), (2,0),
\* (3,0) a plan is returned and enters none of them.
C9_HazardsOnlyWhenForced ==
    /\ (pc = "done" /\ IsAstar /\ \E i \in 1..Len(PlanCells) : PlanCells[i] \in obstacle_positions)
           => ~HazardFreePathExists
    /\ (InScenario /\ obstacle_positions = HazardRow /\ pc \in {"done", "exited"}) =>
           /\ pc = "done"
           /\ \A i \in 1..Len(PlanCells) : PlanCells[i] \notin HazardRow

\* the scenario's plan goes round the hazard row
C9_Witness ==
    /\ pc = "done" /\ InScenario /\ ALGORITHM_TYPE = "dijkstra"
    /\ obstacle_positions = HazardRow
    /\ Len(chosen_path) = 6
    /\ nodes[final_state].cost = 6

\* C10: no state with a budget of 0 or less is on the frontier, in the search
\* tree or returned as the final state.
C10_BudgetPositive ==
    /\ \A i \in 1..Len(nodes) : nodes[i].length >= 1
    /\ \A j \in 1..Len(states) : nodes[states[j]].length >= 1
    /\ final_state # 0 => nodes[final_state].length >= 1

\* the food lies on a hazard next to the head and the budget is 1: the
\* candidate on the food is dropped and the strategy stops without a final state
C10_Witness ==
    /\ pc = "returned" /\ IsAstar
    /\ final_state = 0
    /\ snake_length = 1
    /\ food_position \in obstacle_positions
    /\ Adjacent(snake_positions[1], food_position)

\* C11 as stated: hazard cells can be crossed in all four strategies, so when
\* some valid path leads to the food (through hazard cells if need be, the
\* budget sufficing) the strategy returns a final state.
C11_HazardsTraversable ==
    (pc = "returned" /\ MinPathCost # NoPath) => final_state # 0

\* C12 as stated: no step of search_path changes the world it was given, and
\* of the player's fields only visited, the obstacle cache and chosen_path
\* change: its history attribute stays as it was.
C12_OnlyThreeFieldsChange == [][world' = world /\ self_history' = self_history]_vars

\* C12, amended: no step of search_path, whatever the strategy and the outcome,
\* changes the world it was given: the board, the snake's positions, direction
\* and length, the food, the obstacles and the strategy's name stay as they
\* were.  Of the player's fields the call writes visited, the obstacle cache,
\* chosen_path and history: history is assigned the empty set when the call
\* begins, which creates the attribute at the player's first call, and is
\* written nowhere else.
C12_WorldUnchanged ==
    /\ [][world' = world]_vars
    /\ [][self_history' # self_history =>
              (pc = "idle" /\ self_history = <<>> /\ self_history' = << {} >>)]_vars
    /\ [](pc # "idle" => self_history = << {} >>)

\* a plan has been issued past an obstacle, and the snapshot is still one the
\* game hands over
C12_Witness ==
    /\ pc = "done"
    /\ self_history = << {} >>
    /\ Len(chosen_path) >= 2
    /\ obstacles = obstacle_positions
    /\ obstacles # {}
    /\ Cardinality(visited) >= 3
    /\ SnapshotOK

\* the number of hazard cells entered along the parent chain of node n
HazardsEntered(ns, n) ==
    LET chain == Chain(ns, n)
    IN Cardinality({j \in 2..Len(chain) : ns[chain[j]].position \in obstacle_positions})

\* C14: every state put on a frontier has its parent's budget, less 1 when its
\* cell is a hazard cell; so the budget of a frontier or final state is the
\* start budget less the number of hazard cells entered along its parent chain.
C14_BudgetBookkeeping ==
    /\ \A i \in 1..Len(nodes) :
          /\ nodes[i].parent = 0 => nodes[i].length = snake_length
          /\ nodes[i].parent # 0 =>
                nodes[i].length = nodes[nodes[i].parent].length
                                  - (IF nodes[i].position \in obstacle_positions THEN 1 ELSE 0)
    /\ \A j \in 1..Len(states) :
          nodes[states[j]].length = snake_length - HazardsEntered(nodes, states[j])
    /\ final_state # 0 =>
          nodes[final_state].length = snake_length - HazardsEntered(nodes, final_state)

\* a final state reached through two hazard cells, two units of budget gone
C14_Witness ==
    /\ pc = "returned"
    /\ final_state # 0
    /\ HazardsEntered(nodes, final_state) = 2
    /\ nodes[final_state].length = snake_length - 2

\* the step costs summed along the parent chain of node n: PENALTY for a hazard
\* cell entered, 1 for any other cell, 0 for the start state
RECURSIVE CostAlong(_, _)
CostAlong(ns, n) ==
    IF ns[n].parent = 0 THEN 0
    ELSE CostAlong(ns, ns[n].parent)
         + (IF ns[n].position \in obstacle_positions
            THEN GRID_WIDTH * GRID_HEIGHT + GRID_WIDTH + GRID_HEIGHT
            ELSE 1)

\* cost and best known cost of the frontier states
FrontierCostsOK ==
    \A j \in 1..Len(states) :
        LET s == nodes[states[j]]
        IN /\ s.cost = CostAlong(nodes, states[j])
           /\ Key(s) \in DOMAIN cost_so_far
           /\ cost_so_far[Key(s)] <= s.cost

\* C15 as stated: in dijkstra and astar every frontier state's cost is the sum
\* of the step costs along its parent chain, its priority is that cost
\* (dijkstra) or that cost plus the Manhattan distance to the food (astar), and
\* the best known cost of its key is not above its cost.
C15_PriorityOfEveryState ==
    IsAstar =>
        /\ FrontierCostsOK
        /\ \A j \in 1..Len(states) :
              LET s == nodes[states[j]]
              IN /\ ALGORITHM_TYPE = "dijkstra" => s.priority = s.cost
                 /\ ALGORITHM_TYPE = "astar" =>
                       s.priority = s.cost + Manhattan(s.position, food_position)

\* C15, amended: the start state is pushed with cost 0 and priority 0, in astar
\* too, whatever its distance to the food; every other frontier state has the
\* priority stated.  The best known cost of a key never goes up.
C15_CostAndPriority ==
    /\ [](IsAstar =>
            /\ FrontierCostsOK
            /\ \A j \in 1..Len(states) :
                  LET s == nodes[states[j]]
                  IN IF s.parent = 0 THEN s.priority = 0 /\ s.cost = 0
                     ELSE /\ ALGORITHM_TYPE = "dijkstra" => s.priority = s.cost
                          /\ ALGORITHM_TYPE = "astar" =>
                                s.priority = s.cost + Manhattan(s.position, food_position))
    /\ [][\A k \in DOMAIN cost_so_far :
             k \in DOMAIN cost_so_far' /\ cost_so_far'[k] <= cost_so_far[k]]_vars

\* astar's frontier holds a state reached through a hazard cell, away from the
\* food, next to other states
C15_Witness ==
    /\ pc = "search" /\ ALGORITHM_TYPE = "astar"
    /\ Len(states) >= 3
    /\ \E j \in 1..Len(states) :
          /\ nodes[states[j]].cost > PENALTY
          /\ nodes[states[j]].priority > nodes[states[j]].cost
          /\ nodes[states[j]].cost = CostAlong(nodes, states[j])

\* the state the next pass of astar's loop pops
NextPop == heappop(nodes, states)[1]

\* C16: each dedup key is expanded at most once in one search, so there are at
\* most width*height*4 expansions.  In bfs and dfs a key is put on the frontier
\* at most once, and a state leaves the frontier when it is popped.  In
\* dijkstra and astar a popped state that is not stale has a key not expanded
\* before, a stale pop changes neither visited nor history nor the search tree,
\* and no state is inserted whose key was expanded already.
C16_ExpandedOnce ==
    /\ [](/\ IsBlind =>
               /\ \A i, j \in 1..Len(nodes) : Key(nodes[i]) = Key(nodes[j]) => i = j
               /\ \A i, j \in 1..Len(states) : states[i] = states[j] => i = j
               /\ Len(nodes) <= GRID_WIDTH * GRID_HEIGHT * 4
          /\ IsAstar =>
               /\ Cardinality(history) <= GRID_WIDTH * GRID_HEIGHT * 4
               /\ (pc = "search" /\ states # <<>> /\ ~stale(Loop, NextPop)) =>
                      Key(nodes[NextPop]) \notin history)
    /\ [][/\ (IsAstar /\ pc = "search" /\ states # <<>> /\ stale(Loop, NextPop)) =>
                (visited' = visited /\ history' = history /\ nodes' = nodes)
          /\ (IsAstar /\ pc = "search") =>
                \A i \in (Len(nodes) + 1)..Len(nodes') : Key(nodes'[i]) \notin history'
         ]_vars

\* a search that expanded more keys than the board has cells
C16_Witness ==
    /\ pc = "returned"
    /\ IsAstar
    /\ Cardinality(history) > GRID_WIDTH * GRID_HEIGHT
    /\ Len(nodes) > Cardinality(history)

----------------------------------------------------------------------------
(* src/Pong.py: Racket.move.  The snake's variables stay as they are.        *)

\* PongGame(800, 400, ...): board.surface.get_width()
board_width == 800

\* Racket.__init__: width: int = 80
racket_width == 80

\* Racket.__init__: max_speed: int = 10
max_speed == 10

\* how far to either side of the racket the targets of move are taken from
MaxDelta == 12

\* lines 128-129: the step cut down to max_speed either way
clamp(delta) ==
    LET d1 == IF delta > max_speed THEN max_speed ELSE delta
    IN IF d1 < 0 - max_speed THEN 0 - max_speed ELSE d1

\* mutation of Racket_move: the step is taken whether or not it stays on the board
Racket_move_unchecked(x) == rect_x + clamp(x - rect_x)

\* Racket.move(x, board): the new rect.x
Racket_move(x) ==
    LET d2 == clamp(x - rect_x)
        d3 == IF (rect_x + d2) < 0 THEN 0 ELSE d2
        d4 == IF (rect_x + racket_width + d3) > board_width THEN 0 ELSE d3
    IN rect_x + d4

\* PongGame.__init__: Racket(x=width // 2, y=0)
InitPong ==
    /\ Scenario({"astar"}, {})
    /\ InitPlayer
    /\ snake_hasReset = FALSE
    /\ searches = 0
    /\ consumed = 0
    /\ rect_x = board_width \div 2

\* Player.move(x): self.racket.move(x, self.board)
RacketMove(x) ==
    /\ rect_x' = Racket_move(x)
    /\ UNCHANGED <<world, self_history, snake_hasReset, searches, consumed, visited, chosen_path,
                   obstacles, pc, nodes, states, history, cost_so_far, final_state>>

Targets == (rect_x - MaxDelta)..(rect_x + MaxDelta)

NextPong == \E x \in Targets : RacketMove(x)

SpecPong == InitPong /\ [][NextPong]_vars

\* C19: under calls of Racket.move with integer targets, from a racket on the
\* board, the racket stays on the board, a call moves it by max_speed at most,
\* and a call whose step, cut down to max_speed, would leave the board moves
\* it not at all.
C19_RacketStaysOnBoard ==
    /\ [](0 <= rect_x /\ rect_x + racket_width <= board_width)
    /\ [][/\ Abs(rect_x' - rect_x) <= max_speed
          /\ \A x \in Targets :
                (/\ RacketMove(x)
                 /\ \/ rect_x + clamp(x - rect_x) < 0
                    \/ rect_x + racket_width + clamp(x - rect_x) > board_width)
                => rect_x' = rect_x
         ]_vars

\* the racket stands less than max_speed from the right edge, where a full
\* step to the right is refused
C19_Witness ==
    /\ rect_x + racket_width < board_width
    /\ rect_x + racket_width + max_speed > board_width
    /\ Racket_move(board_width) = rect_x

----------------------------------------------------------------------------
(* SnakeGame.run: one action per call of the loop body (lines 236-242); the  *)
(* call of search_path runs through the actions of the search above.         *)

\* INIT_LENGTH = 4
INIT_LENGTH == 4

\* GRID_SIDE is 24 in the source, where Snake.reset puts the snake on the cell
\* (GRID_SIDE // 2, GRID_SIDE // 2) of a 20 x 20 board; here it is scaled with
\* the board
GRID_SIDE == 2

\* the snake's length is kept from growing past this many units
MaxSnake == 6

\* a snake that takes every direction it is given
Snake_turn_unchecked(direction) == direction

\* Snake.turn(direction): the new snake.direction
Snake_turn(direction) ==
    IF snake_length > 1 /\ reverse(direction) = snake_direction
    THEN snake_direction
    ELSE direction

\* Snake.reset, the random direction being d
Snake_reset(d) ==
    /\ snake_length' = INIT_LENGTH
    /\ snake_positions' = << <<GRID_SIDE \div 2, GRID_SIDE \div 2>> >>
    /\ snake_direction' = d
    /\ snake_hasReset' = TRUE

\* Snake.collide(new)
collide(new) ==
    (new \in Range(snake_positions)) \/ check_bounds(new, GRID_WIDTH, GRID_HEIGHT)

\* the list after positions.insert(0, new) and the while loop that pops the tail
Trimmed(positions, length) ==
    IF Len(positions) > length THEN SubSeq(positions, 1, length) ELSE positions

\* Player.move(snake): pops the plan's first direction and turns the snake, or
\* reports an empty plan
Player_move ==
    IF chosen_path # <<>>
    THEN /\ chosen_path' = Tail(chosen_path)
         /\ snake_direction' = Snake_turn(Head(chosen_path))
         /\ consumed' = consumed + 1
    ELSE /\ UNCHANGED <<chosen_path, snake_direction, consumed>>

\* SnakeGame.__init__ with the snake as Snake.reset leaves it: the food and the
\* obstacles on cells of their own, except that GameNode.randomize_position
\* can put an obstacle on a food lying on (0,0)
InitGame ==
    /\ GRID_WIDTH = Board
    /\ GRID_HEIGHT = Board
    /\ ALGORITHM_TYPE \in Algorithms
    /\ snake_positions = << <<GRID_SIDE \div 2, GRID_SIDE \div 2>> >>
    /\ snake_direction \in DirSet
    /\ snake_length = INIT_LENGTH
    /\ snake_hasReset = TRUE
    /\ food_position \in Cells
    /\ obstacle_positions \in {o \in SUBSET Cells : Cardinality(o) <= MaxObstacles}
    /\ food_position \notin (obstacle_positions \ {<<0, 0>>})
    /\ visited = {}
    /\ chosen_path = <<>>
    /\ obstacles = {}
    /\ nodes = <<>>
    /\ states = <<>>
    /\ history = {}
    /\ cost_so_far = EmptyDict
    /\ final_state = 0
    /\ searches = 0
    /\ consumed = 0
    /\ rect_x = 0
    /\ self_history = <<>>
    /\ pc = "loop"

\* a loop that calls search_path in every tick
TickPlayerMove_always_searching ==
    /\ pc = "loop"
    /\ IF chosen_path # <<>>
       THEN /\ chosen_path' = Tail(chosen_path)
            /\ snake_direction' = Snake_turn(Head(chosen_path))
            /\ consumed' = 1
       ELSE /\ consumed' = 0
            /\ UNCHANGED <<chosen_path, snake_direction>>
    /\ pc' = "idle"
    /\ searches' = 1
    /\ UNCHANGED <<self_history, GRID_WIDTH, GRID_HEIGHT, snake_positions, snake_length, food_position,
                   obstacle_positions, ALGORITHM_TYPE, snake_hasReset, rect_x, visited,
                   obstacles, nodes, states, history, cost_so_far, final_state>>

\* line 236: self.player.move(self.snake) or self.snake.hasReset
TickPlayerMove ==
    /\ pc = "loop"
    /\ IF chosen_path # <<>>
       THEN /\ chosen_path' = Tail(chosen_path)
            /\ snake_direction' = Snake_turn(Head(chosen_path))
            /\ consumed' = 1
       ELSE /\ consumed' = 0
            /\ UNCHANGED <<chosen_path, snake_direction>>
    /\ IF chosen_path = <<>> \/ snake_hasReset
       THEN pc' = "idle" /\ searches' = 1
       ELSE pc' = "move" /\ searches' = 0
    /\ UNCHANGED <<self_history, GRID_WIDTH, GRID_HEIGHT, snake_positions, snake_length, food_position,
                   obstacle_positions, ALGORITHM_TYPE, snake_hasReset, rect_x, visited,
                   obstacles, nodes, states, history, cost_so_far, final_state>>

\* line 238: self.player.move(self.snake) after search_path has returned
TickPlayerMoveAgain ==
    /\ pc = "done"
    /\ Player_move
    /\ pc' = "move"
    /\ UNCHANGED <<self_history, GRID_WIDTH, GRID_HEIGHT, snake_positions, snake_length, food_position,
                   obstacle_positions, ALGORITHM_TYPE, snake_hasReset, searches, rect_x,
                   visited, obstacles, nodes, states, history, cost_so_far, final_state>>

\* line 239: self.snake.move()
SnakeMove ==
    /\ pc = "move"
    /\ LET new == Step(get_head_position, snake_direction)
       IN IF collide(new)
          THEN \E d \in DirSet : Snake_reset(d)
          ELSE /\ snake_positions' = Trimmed(<<new>> \o snake_positions, snake_length)
               /\ snake_hasReset' = FALSE
               /\ UNCHANGED <<snake_length, snake_direction>>
    /\ pc' = "eat"
    /\ UNCHANGED <<self_history, GRID_WIDTH, GRID_HEIGHT, food_position, obstacle_positions,
                   ALGORITHM_TYPE, searches, consumed, rect_x, visited, chosen_path,
                   obstacles, nodes, states, history, cost_so_far, final_state>>

\* line 240: self.snake.eat(self.food); the food lands on a cell off the snake
\* that GameNode.nodes does not hold
SnakeEat ==
    /\ pc = "eat"
    /\ get_head_position = food_position => snake_length < MaxSnake
    /\ IF get_head_position = food_position
       THEN /\ snake_length' = snake_length + 1
            /\ food_position' \in
                  Cells \ (Range(snake_positions) \cup (obstacle_positions \ {<<0, 0>>}))
       ELSE UNCHANGED <<snake_length, food_position>>
    /\ pc' = "hit"
    /\ UNCHANGED <<self_history, GRID_WIDTH, GRID_HEIGHT, snake_positions, snake_direction,
                   obstacle_positions, ALGORITHM_TYPE, snake_hasReset, searches, consumed,
                   rect_x, visited, chosen_path, obstacles, nodes, states, history,
                   cost_so_far, final_state>>

\* the snake's fields as one record
snake ==
    [positions |-> snake_positions, direction |-> snake_direction,
     length |-> snake_length, hasReset |-> snake_hasReset]

\* Snake.hit_obstacle(obstacle) on the snake sn: the snakes it can leave, one
\* for every direction Snake.reset can draw
hit_obstacle(sn, ob) ==
    IF sn.positions[1] = ob
    THEN IF sn.length - 1 = 0
         THEN {[positions |-> << <<GRID_SIDE \div 2, GRID_SIDE \div 2>> >>,
                direction |-> d, length |-> INIT_LENGTH, hasReset |-> TRUE] : d \in DirSet}
         ELSE {[sn EXCEPT !.length = @ - 1]}
    ELSE {sn}

\* the orders in which a for loop can go through the set S
Orders(S) == {o \in [1..Cardinality(S) -> S] : Range(o) = S}

RECURSIVE hit_loop(_, _)
\* for ob in order: snake.hit_obstacle(ob), from any of the snakes sns
hit_loop(order, sns) ==
    IF order = <<>> THEN sns
    ELSE hit_loop(Tail(order), UNION {hit_obstacle(sn, Head(order)) : sn \in sns})

\* lines 241-242: for ob in self.obstacles: self.snake.hit_obstacle(ob).  The
\* loop goes on after a hit has reset the snake: an obstacle on the reset cell
\* that comes later in the set's order hits the new snake.  The set's order is
\* that of the objects' hashes, so any order can be the one.
SnakeHitObstacles ==
    /\ pc = "hit"
    /\ \E order \in Orders(obstacle_positions) :
          \E sn \in hit_loop(order, {snake}) :
             /\ snake_positions' = sn.positions
             /\ snake_direction' = sn.direction
             /\ snake_length' = sn.length
             /\ snake_hasReset' = sn.hasReset
    /\ pc' = "loop"
    /\ UNCHANGED <<self_history, GRID_WIDTH, GRID_HEIGHT, food_position, obstacle_positions,
                   ALGORITHM_TYPE, searches, consumed, rect_x, visited, chosen_path,
                   obstacles, nodes, states, history, cost_so_far, final_state>>

NextGame ==
    \/ TickPlayerMove
    \/ Next
    \/ TickPlayerMoveAgain
    \/ SnakeMove
    \/ SnakeEat
    \/ SnakeHitObstacles

SpecGame == InitGame /\ [][NextGame]_vars

\* the direction the snake is about to move in, or has just moved in, was
\* popped from the plan in force: no search in this tick and a direction
\* popped, or a search in this tick that returned a plan with a move in it
Planned ==
    \/ searches = 0 /\ consumed = 1
    \/ searches = 1 /\ final_state # 0 /\ nodes[final_state].parent # 0

\* C17: while the game loop carries out a returned plan, a direction per tick,
\* Snake.turn takes every planned direction, the snake is not reset by
\* Snake.move (no collision with itself or a wall) or by hit_obstacle (its
\* length never reaches 0), and after the last direction the head is on the
\* food.
C17_PlanCarriedOut ==
    /\ [][(pc \in {"loop", "done"} /\ chosen_path # <<>>) =>
              snake_direction' = Head(chosen_path)]_vars
    /\ [][(pc \in {"move", "hit"} /\ Planned) => ~snake_hasReset']_vars
    /\ []((pc = "eat" /\ Planned /\ chosen_path = <<>> /\ ~snake_hasReset) =>
              get_head_position = food_position)

\* the last direction of a plan issued in an earlier tick has been carried out
\* by a snake that hazards have shortened; its head is on the food
C17_Witness ==
    /\ pc = "eat"
    /\ searches = 0
    /\ consumed = 1
    /\ chosen_path = <<>>
    /\ ~snake_hasReset
    /\ snake_length < INIT_LENGTH
    /\ Len(snake_positions) >= 2
    /\ get_head_position = food_position

\* the plan is empty or the snake was reset since its last move
SearchDue == chosen_path = <<>> \/ snake_hasReset

\* a step that leaves the plan alone or pops its first direction
PopsAtMostOne == chosen_path' = chosen_path \/ chosen_path' = Tail(chosen_path)

\* a step that neither pops a direction nor counts one
PlanKept == chosen_path' = chosen_path /\ consumed' = consumed

\* C13: in every tick of the game loop search_path is called once if, at the
\* start of the tick, the plan is empty or the snake was reset since its last
\* move, and is not called otherwise: the call is entered from the start of the
\* tick only, and nothing after its return leads back to it within the tick.
\* At most one direction of a plan is consumed per tick: one pop of the plan in
\* force at the start of the tick, one pop of a plan issued in the tick, and no
\* other change of a plan but its replacement by the search.
C13_SearchOncePerTick ==
    /\ [][pc = "loop" => ((pc' = "idle" /\ searches' = 1) <=> SearchDue)]_vars
    /\ [][pc = "loop" => ((pc' = "move" /\ searches' = 0) <=> ~SearchDue)]_vars
    /\ [][pc' = "idle" => pc \in {"loop", "idle"}]_vars
    /\ [][pc # "loop" => searches' = searches]_vars
    /\ [][(pc \in {"loop", "done"}) => PopsAtMostOne]_vars
    /\ [][(pc \in {"move", "eat", "hit"}) => PlanKept]_vars
    /\ [](consumed <= 2 /\ (searches = 0 => consumed <= 1))

\* a tick whose plan was exhausted without a reset: search_path was called
\* once, and one direction of the plan it issued is consumed, the rest kept
C13_Witness ==
    /\ pc = "move"
    /\ searches = 1
    /\ consumed = 1
    /\ ~snake_hasReset
    /\ chosen_path # <<>>

----------------------------------------------------------------------------
(* The game played through HumanPlayer: key presses queue directions in       *)
(* chosen_path, Player.move pops them, and Player.search_path does nothing.   *)

\* the key presses waiting in chosen_path are kept to this many
MaxKeys == 2

\* SnakeGame.handle_events: an arrow key calls HumanPlayer.turn(direction),
\* which appends the direction to chosen_path
KeyDown(d) ==
    /\ pc = "loop"
    /\ Len(chosen_path) < MaxKeys
    /\ chosen_path' = Append(chosen_path, d)
    /\ UNCHANGED <<world, beyond, self_history, visited, obstacles, pc, nodes, states, history,
                   cost_so_far, final_state>>

\* line 236 with HumanPlayer: Player.move, then Player.search_path (pass) when
\* the queue was empty or the snake was reset
HumanPlayerMove ==
    /\ pc = "loop"
    /\ IF chosen_path # <<>>
       THEN /\ chosen_path' = Tail(chosen_path)
            /\ snake_direction' = Snake_turn(Head(chosen_path))
            /\ consumed' = 1
       ELSE /\ consumed' = 0
            /\ UNCHANGED <<chosen_path, snake_direction>>
    /\ IF chosen_path = <<>> \/ snake_hasReset
       THEN pc' = "again" /\ searches' = 1
       ELSE pc' = "move" /\ searches' = 0
    /\ UNCHANGED <<self_history, GRID_WIDTH, GRID_HEIGHT, snake_positions, snake_length, food_position,
                   obstacle_positions, ALGORITHM_TYPE, snake_hasReset, rect_x, visited,
                   obstacles, nodes, states, history, cost_so_far, final_state>>

\* line 238 with HumanPlayer: self.player.move(self.snake)
HumanPlayerMoveAgain ==
    /\ pc = "again"
    /\ Player_move
    /\ pc' = "move"
    /\ UNCHANGED <<self_history, GRID_WIDTH, GRID_HEIGHT, snake_positions, snake_length, food_position,
                   obstacle_positions, ALGORITHM_TYPE, snake_hasReset, searches, rect_x,
                   visited, obstacles, nodes, states, history, cost_so_far, final_state>>

\* HumanPlayer has no strategy; ALGORITHM_TYPE is never read
InitSnake == InitGame /\ ALGORITHM_TYPE = "astar"

NextSnake ==
    \/ \E d \in DirSet : KeyDown(d)
    \/ HumanPlayerMove
    \/ HumanPlayerMoveAgain
    \/ SnakeMove
    \/ SnakeEat
    \/ SnakeHitObstacles

SpecSnake == InitSnake /\ [][NextSnake]_vars

\* Player.move has popped a direction in this step
Popped == chosen_path # <<>> /\ chosen_path' = Tail(chosen_path)

\* the direction after Snake.turn(d), d being the direction popped: unchanged
\* when the length is above 1 and d is the reverse of the direction, d otherwise
TurnedAsStated ==
    IF snake_length > 1 /\ Head(chosen_path) = reverse(snake_direction)
    THEN snake_direction' = snake_direction
    ELSE snake_direction' = Head(chosen_path)

\* C18: through any sequence of game ticks (turn, move, eat, hit_obstacle) the
\* snake's length is at least 1 and its list of positions is not empty; right
\* after every Snake.move the snake occupies at most length cells; and
\* Snake.turn(d) keeps the direction when length > 1 and d is the reverse of
\* the direction, and sets the direction to d otherwise.
C18_SnakeInvariants ==
    /\ [](snake_length >= 1 /\ snake_positions # <<>>)
    /\ [](pc = "eat" => Len(snake_positions) <= snake_length)
    /\ [][(pc \in {"loop", "again"} /\ Popped) => TurnedAsStated]_vars

\* Snake.move has just moved a snake that hazards had shortened to one unit:
\* it lies on one cell, a hazard, and has not been reset
C18_Witness ==
    /\ pc = "eat"
    /\ ~snake_hasReset
    /\ snake_length = 1
    /\ Len(snake_positions) = 1
    /\ get_head_position \in obstacle_positions

====
